---- MODULE Spec2Model ----
(***************************************************************************)
(* Model of the CORS proxy service worker (src/cors-proxy-sw.js).          *)
(*                                                                         *)
(* Strings the code inspects character by character (URLs, header values)  *)
(* are sequences of one-character strings.  An async function is modelled  *)
(* as one action per resumption: the code between two awaits runs          *)
(* atomically, and what a settled promise delivers (a response, a          *)
(* rejection) is the action's nondeterministic input.                      *)
(***************************************************************************)
EXTENDS Integers, Sequences, FiniteSets, TLC

VARIABLES
    now,        \* Date.now(), epoch milliseconds
    store,      \* CacheStorage: generation name -> (key -> entry), or NoCache
    pc,         \* per request: where fetchWithCorsProxy is suspended
    method,     \* per request: request.method
    rurl,       \* per request: request.url
    url,        \* per request: the local `url` of fetchWithCorsProxy
    cur,        \* per request: the response the current attempt is working on
    resp,       \* per request: what fetchWithCorsProxy resolved to
    fetched,    \* per request: the network fetches issued so far, in order
    put,        \* per request: the cache.put it issued (NoPut if none)
    lastPut,    \* per key: the request whose cache.put was last applied
    swpc,       \* the worker's lifecycle position
    names,      \* activate: the names caches.keys() resolved to
    deleting,   \* activate: caches.delete() calls not yet settled
    probe,      \* URL classifier: the URL handed to the predicates
    verdict     \* URL classifier: what the predicates answered

vars == <<now, store, pc, method, rurl, url, cur, resp, fetched, put, lastPut,
          swpc, names, deleting, probe, verdict>>

reqVars == <<pc, method, rurl, url, cur, resp, fetched>>
swVars == <<swpc, names, deleting>>
clsVars == <<probe, verdict>>

----------------------------------------------------------------------------
(* Bounds of the model                                                     *)

NumReqs == 2        \* fetch events handled
MaxTicks == 1       \* clock advances after the worker started
TickMs == 1800000   \* one clock advance, in milliseconds

Reqs == 1..NumReqs

----------------------------------------------------------------------------
(* Constants of the program                                                *)

CORS_PROXY == <<"h","t","t","p","s",":","/","/","c","o","r","s","p","r","o","x","y",".","i","o","/","?">>
CACHE_NAME == "cors-proxy-v2"
CACHE_MAX_AGE == 60 * 60 * 1000
KNOWN_CORS_BLOCKED == { <<"u","n","d","r","a","w",".","c","o">> }

----------------------------------------------------------------------------
(* String helpers                                                          *)

StartsWith(s, p) ==
    /\ Len(s) >= Len(p)
    /\ SubSeq(s, 1, Len(p)) = p

EndsWith(s, p) ==
    /\ Len(s) >= Len(p)
    /\ SubSeq(s, Len(s) - Len(p) + 1, Len(s)) = p

Drop(s, n) == SubSeq(s, n + 1, Len(s))

\* Index of the first occurrence of character c in s, 0 if none.
IndexOf(s, c) ==
    IF \E i \in 1..Len(s) : s[i] = c
    THEN CHOOSE i \in 1..Len(s) : s[i] = c /\ \A j \in 1..(i - 1) : s[j] # c
    ELSE 0

Digits == <<"0","1","2","3","4","5","6","7","8","9">>

DigitVal(c) == (CHOOSE i \in 1..10 : Digits[i] = c) - 1

IsDigit(c) == \E i \in 1..10 : Digits[i] = c

\* String(n) for a non-negative integer: its decimal digits.
RECURSIVE NumToString(_)
NumToString(n) ==
    IF n < 10 THEN <<Digits[n + 1]>>
    ELSE Append(NumToString(n \div 10), Digits[(n % 10) + 1])

\* parseInt(s, 10) for a string without sign or leading blanks: the value of
\* the longest prefix of decimal digits, NaN if that prefix is empty.
RECURSIVE ParseDigits(_, _)
ParseDigits(s, acc) ==
    IF s = <<>> \/ ~IsDigit(Head(s)) THEN acc
    ELSE ParseDigits(Tail(s), acc * 10 + DigitVal(Head(s)))

ParseInt(s) ==
    IF s = <<>> \/ ~IsDigit(Head(s)) THEN [nan |-> TRUE, val |-> 0]
    ELSE [nan |-> FALSE, val |-> ParseDigits(s, 0)]

----------------------------------------------------------------------------
(* URLs                                                                    *)

HttpPrefix == <<"h","t","t","p",":","/","/">>
HttpsPrefix == <<"h","t","t","p","s",":","/","/">>

\* new URL(url), as far as the code reads it: the protocol is the text up to
\* and including the first ":"; a "//" after it starts the authority, whose
\* hostname runs to the next "/" (or the end).  A string without a scheme
\* does not parse.
ParseURL(u) ==
    LET colon == IndexOf(u, ":")
        rest == Drop(u, colon)
        hasAuth == StartsWith(rest, <<"/","/">>)
        auth == Drop(rest, 2)
        slash == IndexOf(auth, "/")
        host == IF slash = 0 THEN auth ELSE SubSeq(auth, 1, slash - 1)
    IN  IF colon <= 1 THEN [ok |-> FALSE, protocol |-> <<>>, hostname |-> <<>>]
        ELSE [ok |-> TRUE,
              protocol |-> SubSeq(u, 1, colon),
              hostname |-> IF hasAuth THEN host ELSE <<>>]

OpaqueOrigin == <<"n","u","l","l">>

\* URL.origin: scheme, "//" and host for http(s); the origin of the embedded
\* URL for blob:; the opaque origin "null" for every other scheme.  The
\* model's URLs carry no port.
TupleOrigin(p) == p.protocol \o <<"/","/">> \o p.hostname

IsHttpScheme(p) ==
    p.protocol \in { <<"h","t","t","p",":">>, <<"h","t","t","p","s",":">> }

OriginOf(u) ==
    LET p == ParseURL(u)
        inner == ParseURL(Drop(u, Len(p.protocol)))
    IN  IF IsHttpScheme(p) THEN TupleOrigin(p)
        ELSE IF p.protocol = <<"b","l","o","b",":">> /\ inner.ok /\ IsHttpScheme(inner)
             THEN TupleOrigin(inner)
        ELSE OpaqueOrigin

\* self.location.origin: the origin the worker is served from.
SelfOrigin == <<"h","t","t","p","s",":","/","/","a",".","i","o">>

\* Mutant of shouldSkip: the exempt API host is not looked for.
shouldSkip_noExemptHost(u) ==
    LET p == ParseURL(u)
    IN  IF ~p.ok THEN TRUE
        ELSE IF OriginOf(u) = SelfOrigin THEN TRUE
        ELSE IF p.protocol = <<"d","a","t","a",":">> THEN TRUE
        ELSE IF p.protocol = <<"b","l","o","b",":">> THEN TRUE
        ELSE IF p.hostname = <<"c","o","r","s","p","r","o","x","y",".","i","o">> THEN TRUE
        ELSE IF p.protocol = <<"c","h","r","o","m","e","-","e","x","t","e","n","s","i","o","n",":">> THEN TRUE
        ELSE FALSE


shouldSkip(u) ==
    LET p == ParseURL(u)
    IN  IF ~p.ok THEN TRUE
        ELSE IF OriginOf(u) = SelfOrigin THEN TRUE
        ELSE IF p.protocol = <<"d","a","t","a",":">> THEN TRUE
        ELSE IF p.protocol = <<"b","l","o","b",":">> THEN TRUE
        ELSE IF p.hostname = <<"c","o","r","s","p","r","o","x","y",".","i","o">> THEN TRUE
        ELSE IF p.hostname = <<"a","p","i",".","i","c","o","n","i","f","y",".","d","e","s","i","g","n">> THEN TRUE
        ELSE IF p.protocol = <<"c","h","r","o","m","e","-","e","x","t","e","n","s","i","o","n",":">> THEN TRUE
        ELSE FALSE

\* Mutant of isKnownBlocked: only subdomains of a deny-listed host match.
isKnownBlocked_subdomainsOnly(u) ==
    LET p == ParseURL(u)
    IN  IF ~p.ok THEN FALSE
        ELSE \E d \in KNOWN_CORS_BLOCKED : EndsWith(p.hostname, <<".">> \o d)


\* Mutant of isKnownBlocked: the suffix is compared without the dot.
isKnownBlocked_noDot(u) ==
    LET p == ParseURL(u)
    IN  IF ~p.ok THEN FALSE
        ELSE \E d \in KNOWN_CORS_BLOCKED :
                \/ p.hostname = d
                \/ EndsWith(p.hostname, d)


isKnownBlocked(u) ==
    LET p == ParseURL(u)
    IN  IF ~p.ok THEN FALSE
        ELSE \E d \in KNOWN_CORS_BLOCKED :
                \/ p.hostname = d
                \/ EndsWith(p.hostname, <<".">> \o d)

\* Mutant of secureUrl: the URL is used as it came.
secureUrl_asIs(u) == u


secureUrl(u) ==
    IF StartsWith(u, HttpPrefix) THEN HttpsPrefix \o Drop(u, Len(HttpPrefix))
    ELSE u

\* encodeURIComponent over the characters the model's URLs are made of.
EncodeChar(c) ==
    CASE c = ":" -> <<"%","3","A">>
      [] c = "/" -> <<"%","2","F">>
      [] c = "?" -> <<"%","3","F">>
      [] c = "=" -> <<"%","3","D">>
      [] c = "%" -> <<"%","2","5">>
      [] OTHER   -> <<c>>

RECURSIVE encodeURIComponent(_)
encodeURIComponent(s) ==
    IF s = <<>> THEN <<>>
    ELSE EncodeChar(Head(s)) \o encodeURIComponent(Tail(s))

LocalProxyPrefix == <<"/","a","p","i","/","p","r","o","x","y","-","f","e","t","c","h","?","u","r","l","=">>

getLocalProxyUrl(u) == LocalProxyPrefix \o encodeURIComponent(u)

getPublicProxyUrl(u) == CORS_PROXY \o encodeURIComponent(u)

----------------------------------------------------------------------------
(* Responses and headers                                                   *)

\* What Headers.get() returns for a header that is not there.
Null == <<"null">>

\* Header names are case-insensitive; they are kept in lower case.
HeaderGet(h, n) == IF n \in DOMAIN h THEN h[n] ELSE Null

HeaderSet(h, n, v) == [m \in (DOMAIN h) \cup {n} |-> IF m = n THEN v ELSE h[m]]

\* JavaScript truthiness of a header value: null and "" are falsy.
Truthy(v) == v # Null /\ v # <<>>

NoHeaders == [m \in {} |-> <<>>]

ImagePng == <<"i","m","a","g","e","/","p","n","g">>
OctetStream == <<"a","p","p","l","i","c","a","t","i","o","n","/","o","c","t","e","t","-","s","t","r","e","a","m">>
TextPlain == <<"t","e","x","t","/","p","l","a","i","n",";","c","h","a","r","s","e","t","=","U","T","F","-","8">>
ProxiedLocal == <<"l","o","c","a","l">>
ProxiedTrue == <<"t","r","u","e">>

Response(body, status, statusText, headers) ==
    [status |-> status, statusText |-> statusText, headers |-> headers, body |-> body]

\* Response.ok
Ok(r) == r.status >= 200 /\ r.status <= 299

\* The Response constructor throws when given a body for a null body status.
NullBodyStatus(status) == status \in {101, 103, 204, 205, 304}

NoResp == Response("", 0, "", NoHeaders)

FailResponse ==
    Response("CORS proxy failed", 502, "CORS Proxy Failed",
             [m \in {"content-type"} |-> TextPlain])

\* Mutant of the cacheable copy: the clock is stamped only when the response
\* carries no x-sw-cached-at of its own.
DirectCacheCopy_keepStamp(d, t) ==
    Response(d.body, d.status, d.statusText,
             IF HeaderGet(d.headers, "x-sw-cached-at") # Null
             THEN d.headers
             ELSE HeaderSet(d.headers, "x-sw-cached-at", NumToString(t)))

\* The cacheable copy of an ok direct response (lines 64-72): the original's
\* status, status text and headers, with x-sw-cached-at set to the clock.
DirectCacheCopy(d, t) ==
    Response(d.body, d.status, d.statusText,
             HeaderSet(d.headers, "x-sw-cached-at", NumToString(t)))

\* Mutant of the relay normalization: every response is marked 'local'.
CleanResponse_localMarker(p, t, marker) ==
    LET ct == HeaderGet(p.headers, "content-type")
    IN  Response(p.body, 200, "",
                 [m \in {"content-type", "x-sw-cached-at", "x-sw-proxied"} |->
                    CASE m = "content-type" -> (IF Truthy(ct) THEN ct ELSE OctetStream)
                      [] m = "x-sw-cached-at" -> NumToString(t)
                      [] OTHER -> ProxiedLocal])

\* The normalized response built from an ok relay response (lines 86-93 and
\* 106-113): status 200, the relay's content type or the binary default, the
\* clock as x-sw-cached-at, and the proxied marker.
CleanResponse(p, t, marker) ==
    LET ct == HeaderGet(p.headers, "content-type")
    IN  Response(p.body, 200, "",
                 [m \in {"content-type", "x-sw-cached-at", "x-sw-proxied"} |->
                    CASE m = "content-type" -> (IF Truthy(ct) THEN ct ELSE OctetStream)
                      [] m = "x-sw-cached-at" -> NumToString(t)
                      [] OTHER -> marker])

\* Mutants of the freshness test: the comparison inverted; the boundary
\* included.
IsFresh_inverted(cached, t) ==
    LET cachedTime == HeaderGet(cached.headers, "x-sw-cached-at")
        parsed == ParseInt(cachedTime)
    IN  /\ Truthy(cachedTime)
        /\ ~parsed.nan
        /\ (t - parsed.val) > CACHE_MAX_AGE

IsFresh_inclusive(cached, t) ==
    LET cachedTime == HeaderGet(cached.headers, "x-sw-cached-at")
        parsed == ParseInt(cachedTime)
    IN  /\ Truthy(cachedTime)
        /\ ~parsed.nan
        /\ (t - parsed.val) <= CACHE_MAX_AGE

\* The freshness test of line 54 on a cache.match() result.
IsFresh(cached, t) ==
    LET cachedTime == HeaderGet(cached.headers, "x-sw-cached-at")
        parsed == ParseInt(cachedTime)
    IN  /\ Truthy(cachedTime)
        /\ ~parsed.nan
        /\ (t - parsed.val) < CACHE_MAX_AGE

----------------------------------------------------------------------------
(* The environment: request URLs, what the network answers, what the cache *)
(* storage holds when the worker starts                                    *)

UrlBlocked == <<"h","t","t","p",":","/","/","u","n","d","r","a","w",".","c","o","/","i">>
UrlOpen == <<"h","t","t","p","s",":","/","/","x",".","i","o","/","i">>
UrlBlockedHttps == <<"h","t","t","p","s",":","/","/","u","n","d","r","a","w",".","c","o","/","i">>
UrlSelf == <<"h","t","t","p","s",":","/","/","a",".","i","o","/","i">>
UrlData == <<"d","a","t","a",":","x">>

RequestUrls == {UrlBlocked, UrlBlockedHttps, UrlOpen, UrlSelf, UrlData}
Methods == {"GET", "POST"}

Keys == {secureUrl(u) : u \in {v \in RequestUrls : ~shouldSkip(v)}}

StampZero == [m \in {"x-sw-cached-at"} |-> NumToString(0)]

DirectResponses ==
    { Response("B1", 200, "OK", [m \in {"content-type"} |-> ImagePng]),
      Response("B2", 200, "OK", StampZero),
      Response("", 204, "No Content", NoHeaders),
      Response("nf", 404, "Not Found", NoHeaders) }

RelayResponses ==
    { Response("B1", 200, "OK", [m \in {"content-type"} |-> ImagePng]),
      Response("B2", 200, "OK", NoHeaders),
      Response("nf", 404, "Not Found", NoHeaders) }

OLD_CACHE == "cors-proxy-v1"
CacheNames == {CACHE_NAME, OLD_CACHE}

NoCache == <<>>
EmptyCache == [k \in Keys |-> NoResp]

\* Entries left in the storage by an earlier run of a worker: one the worker
\* wrote at time 0, one clock advance before this run starts, and one without
\* a capture timestamp.
OldEntry == CleanResponse(Response("B0", 200, "OK", NoHeaders), 0, ProxiedTrue)
BareEntry == Response("B0", 200, "OK", NoHeaders)

InitialCaches ==
    { NoCache,
      [EmptyCache EXCEPT ![secureUrl(UrlOpen)] = OldEntry],
      [EmptyCache EXCEPT ![secureUrl(UrlBlocked)] = BareEntry] }

\* cache.match(key): the entry under the key, NoResp for undefined.
Match(cache, key) == IF key \in DOMAIN cache THEN cache[key] ELSE NoResp

\* The effect of a settled cache.put(key, entry) on the cache's content.
Store(cache, key, entry) ==
    [k \in (DOMAIN cache) \cup {key} |-> IF k = key THEN entry ELSE cache[k]]

NoPut == [key |-> <<>>, entry |-> NoResp, state |-> "none"]

TypeOK ==
    /\ now \in TickMs..((MaxTicks + 1) * TickMs)
    /\ DOMAIN store = CacheNames
    /\ pc \in [Reqs -> {"idle", "passthrough", "open", "match", "direct",
                        "directBody", "local", "localBody", "public",
                        "publicBody", "doneCache", "doneDirect", "doneLocal",
                        "donePublic", "done502", "rejected"}]
    /\ \A r \in Reqs : put[r].state \in {"none", "pending", "stored", "failed"}
    /\ \A k \in Keys : lastPut[k] \in 0..NumReqs
    /\ swpc \in {"new", "installed", "keys", "deleting", "claimed", "failed"}
    /\ deleting \subseteq CacheNames

\* The worker as the browser starts it.
InitWorker ==
    /\ now = TickMs
    /\ store \in [CacheNames -> InitialCaches]
    /\ store[OLD_CACHE] = [EmptyCache EXCEPT ![secureUrl(UrlOpen)] = OldEntry]
    /\ pc = [r \in Reqs |-> "idle"]
    /\ method = [r \in Reqs |-> "GET"]
    /\ rurl = [r \in Reqs |-> <<>>]
    /\ url = [r \in Reqs |-> <<>>]
    /\ cur = [r \in Reqs |-> NoResp]
    /\ resp = [r \in Reqs |-> NoResp]
    /\ fetched = [r \in Reqs |-> <<>>]
    /\ put = [r \in Reqs |-> NoPut]
    /\ lastPut = [k \in Keys |-> 0]
    /\ swpc = "new"
    /\ names = {}
    /\ deleting = {}

NoProbe == [scheme |-> <<>>, host |-> <<>>, path |-> <<>>]
NoVerdict == [done |-> FALSE, skip |-> FALSE, blocked |-> FALSE]

Init ==
    /\ InitWorker
    /\ probe = NoProbe
    /\ verdict = NoVerdict

----------------------------------------------------------------------------
(* fetchWithCorsProxy, one action per resumption                           *)

\* The log of a request's network fetches: which attempt, the URL fetched,
\* and how the attempt ended ("pending" while it is under way, "failed" when
\* it fell through, "returned" when its response was returned).
Settle(r, outcome) ==
    IF fetched[r] = <<>> THEN fetched[r]
    ELSE [fetched[r] EXCEPT ![Len(fetched[r])].outcome = outcome]

Fetch(r, via, target) ==
    Append(Settle(r, "failed"),
           [via |-> via, target |-> target, outcome |-> "pending"])

\* Falling through to the local relay attempt: line 83-84 up to the await.
StartLocal(r) ==
    /\ fetched' = [fetched EXCEPT ![r] = Fetch(r, "local", getLocalProxyUrl(url[r]))]
    /\ pc' = [pc EXCEPT ![r] = "local"]
    /\ cur' = [cur EXCEPT ![r] = NoResp]

\* Falling through to the public relay attempt: line 103-104 up to the await.
StartPublic(r) ==
    /\ fetched' = [fetched EXCEPT ![r] = Fetch(r, "public", getPublicProxyUrl(url[r]))]
    /\ pc' = [pc EXCEPT ![r] = "public"]
    /\ cur' = [cur EXCEPT ![r] = NoResp]

\* Line 60-62 up to the await.
StartDirect(r) ==
    /\ fetched' = [fetched EXCEPT ![r] = Fetch(r, "direct", url[r])]
    /\ pc' = [pc EXCEPT ![r] = "direct"]
    /\ cur' = [cur EXCEPT ![r] = NoResp]

\* Mutant of the terminal failure: the response carries status 500.
ReturnFailure_status500(r) ==
    /\ resp' = [resp EXCEPT ![r] = [FailResponse EXCEPT !.status = 500]]
    /\ pc' = [pc EXCEPT ![r] = "done502"]
    /\ cur' = [cur EXCEPT ![r] = NoResp]
    /\ fetched' = [fetched EXCEPT ![r] = Settle(r, "failed")]

\* Line 121.
ReturnFailure(r) ==
    /\ resp' = [resp EXCEPT ![r] = FailResponse]
    /\ pc' = [pc EXCEPT ![r] = "done502"]
    /\ cur' = [cur EXCEPT ![r] = NoResp]
    /\ fetched' = [fetched EXCEPT ![r] = Settle(r, "failed")]

\* return of an attempt's response (lines 74, 95, 115).
Return(r, response, where) ==
    /\ resp' = [resp EXCEPT ![r] = response]
    /\ pc' = [pc EXCEPT ![r] = where]
    /\ cur' = [cur EXCEPT ![r] = NoResp]
    /\ fetched' = [fetched EXCEPT ![r] = Settle(r, "returned")]

\* cache.put(url, entry).catch(function() {}): the write is issued and left
\* to settle on its own.
IssuePut(r, entry) ==
    put' = [put EXCEPT ![r] = [key |-> url[r], entry |-> entry, state |-> "pending"]]

\* Mutant of the fetch listener: the method is not looked at.
FetchEvent_anyMethod(r, u, m) ==
    /\ pc[r] = "idle"
    /\ \A q \in Reqs : q < r => pc[q] # "idle"
    /\ swpc \notin {"new", "installed"}
    /\ rurl' = [rurl EXCEPT ![r] = u]
    /\ method' = [method EXCEPT ![r] = m]
    /\ IF shouldSkip(u)
       THEN /\ pc' = [pc EXCEPT ![r] = "passthrough"]
            /\ url' = url
       ELSE /\ pc' = [pc EXCEPT ![r] = "open"]
            /\ url' = [url EXCEPT ![r] = secureUrl(u)]
    /\ UNCHANGED <<clsVars, now, store, cur, resp, fetched, put, lastPut, swVars>>

\* The fetch listener (lines 139-144); for a request it takes on, the
\* orchestrator runs to its first await, caches.open (lines 47-50).
\* Requests are numbered in the order of their fetch events.
FetchEvent(r, u, m) ==
    /\ pc[r] = "idle"
    /\ \A q \in Reqs : q < r => pc[q] # "idle"
    /\ swpc \notin {"new", "installed"}
    /\ rurl' = [rurl EXCEPT ![r] = u]
    /\ method' = [method EXCEPT ![r] = m]
    /\ IF m # "GET" \/ shouldSkip(u)
       THEN /\ pc' = [pc EXCEPT ![r] = "passthrough"]
            /\ url' = url
       ELSE /\ pc' = [pc EXCEPT ![r] = "open"]
            /\ url' = [url EXCEPT ![r] = secureUrl(u)]
    /\ UNCHANGED <<clsVars, now, store, cur, resp, fetched, put, lastPut, swVars>>

\* caches.open(CACHE_NAME) resolves, creating the generation if it is not
\* there; the orchestrator goes on to cache.match (line 51).
OpenResolves(r) ==
    /\ pc[r] = "open"
    /\ store' = [store EXCEPT ![CACHE_NAME] =
                    IF @ = NoCache THEN EmptyCache ELSE @]
    /\ pc' = [pc EXCEPT ![r] = "match"]
    /\ UNCHANGED <<clsVars, now, method, rurl, url, cur, resp, fetched, put,
                   lastPut, swVars>>

\* caches.open(CACHE_NAME) rejects: line 50 is in no try block, the
\* rejection leaves fetchWithCorsProxy.
OpenRejects(r) ==
    /\ pc[r] = "open"
    /\ pc' = [pc EXCEPT ![r] = "rejected"]
    /\ UNCHANGED <<clsVars, now, store, method, rurl, url, cur, resp, fetched, put, lastPut, swVars>>

\* Mutant of the cache check: an entry found stale is removed.
MatchResolves_evicts(r) ==
    /\ pc[r] = "match"
    /\ LET cached == Match(store[CACHE_NAME], url[r])
       IN  IF cached # NoResp /\ IsFresh(cached, now)
           THEN /\ resp' = [resp EXCEPT ![r] = cached]
                /\ pc' = [pc EXCEPT ![r] = "doneCache"]
                /\ UNCHANGED <<fetched, cur, store>>
           ELSE /\ IF ~isKnownBlocked(url[r]) THEN StartDirect(r) ELSE StartLocal(r)
                /\ resp' = resp
                /\ store' = [store EXCEPT ![CACHE_NAME] = Store(@, url[r], NoResp)]
    /\ UNCHANGED <<clsVars, now, method, rurl, url, put, lastPut, swVars>>

\* cache.match(url) resolves (lines 51-62 or 51-84): a fresh entry is
\* returned; otherwise the first attempt is started.
MatchResolves(r) ==
    /\ pc[r] = "match"
    /\ LET cached == Match(store[CACHE_NAME], url[r])
       IN  IF cached # NoResp /\ IsFresh(cached, now)
           THEN /\ resp' = [resp EXCEPT ![r] = cached]
                /\ pc' = [pc EXCEPT ![r] = "doneCache"]
                /\ UNCHANGED <<fetched, cur>>
           ELSE /\ IF ~isKnownBlocked(url[r]) THEN StartDirect(r) ELSE StartLocal(r)
                /\ resp' = resp
    /\ UNCHANGED <<clsVars, now, store, method, rurl, url, put, lastPut, swVars>>

\* cache.match(url) rejects: line 51 is in no try block either.
MatchRejects(r) ==
    /\ pc[r] = "match"
    /\ pc' = [pc EXCEPT ![r] = "rejected"]
    /\ UNCHANGED <<clsVars, now, store, method, rurl, url, cur, resp, fetched, put, lastPut, swVars>>

\* Mutant of the direct attempt: the test of directResp.ok is missing.
DirectResolves_noOkTest(r, d) ==
    /\ pc[r] = "direct"
    /\ cur' = [cur EXCEPT ![r] = d]
    /\ pc' = [pc EXCEPT ![r] = "directBody"]
    /\ fetched' = fetched
    /\ UNCHANGED <<clsVars, now, store, method, rurl, url, resp, put, lastPut, swVars>>

\* The direct fetch resolves with response d (lines 62-65, or 76-84 when the
\* status is not ok).
DirectResolves(r, d) ==
    /\ pc[r] = "direct"
    /\ IF Ok(d)
       THEN /\ cur' = [cur EXCEPT ![r] = d]
            /\ pc' = [pc EXCEPT ![r] = "directBody"]
            /\ fetched' = fetched
       ELSE StartLocal(r)
    /\ UNCHANGED <<clsVars, now, store, method, rurl, url, resp, put, lastPut, swVars>>

\* Mutant of the direct attempt's catch: it falls through to the public
\* relay.
DirectRejects_toPublic(r) ==
    /\ pc[r] = "direct"
    /\ StartPublic(r)
    /\ UNCHANGED <<clsVars, now, store, method, rurl, url, resp, put, lastPut, swVars>>

\* The direct fetch rejects (CORS or network error): caught at line 76.
DirectRejects(r) ==
    /\ pc[r] = "direct"
    /\ StartLocal(r)
    /\ UNCHANGED <<clsVars, now, store, method, rurl, url, resp, put, lastPut, swVars>>

\* cloned.arrayBuffer() resolves (lines 65-74): the cache copy is built and
\* written, the original response returned.  The Response constructor throws
\* for a null body status; that is caught at line 76 like any other
\* exception of the attempt.
DirectBodyResolves(r) ==
    /\ pc[r] = "directBody"
    /\ IF NullBodyStatus(cur[r].status)
       THEN /\ StartLocal(r)
            /\ UNCHANGED <<resp, put>>
       ELSE /\ IssuePut(r, DirectCacheCopy(cur[r], now))
            /\ Return(r, cur[r], "doneDirect")
    /\ UNCHANGED <<clsVars, now, store, method, rurl, url, lastPut, swVars>>

\* cloned.arrayBuffer() rejects: caught at line 76.
DirectBodyRejects(r) ==
    /\ pc[r] = "directBody"
    /\ StartLocal(r)
    /\ UNCHANGED <<clsVars, now, store, method, rurl, url, resp, put, lastPut, swVars>>

\* The local relay fetch resolves with response p (lines 84-86, or 97-104).
LocalResolves(r, p) ==
    /\ pc[r] = "local"
    /\ IF Ok(p)
       THEN /\ cur' = [cur EXCEPT ![r] = p]
            /\ pc' = [pc EXCEPT ![r] = "localBody"]
            /\ fetched' = fetched
       ELSE StartPublic(r)
    /\ UNCHANGED <<clsVars, now, store, method, rurl, url, resp, put, lastPut, swVars>>

LocalRejects(r) ==
    /\ pc[r] = "local"
    /\ StartPublic(r)
    /\ UNCHANGED <<clsVars, now, store, method, rurl, url, resp, put, lastPut, swVars>>

\* localResp.arrayBuffer() resolves (lines 86-95).
LocalBodyResolves(r) ==
    /\ pc[r] = "localBody"
    /\ LET cleanResp == CleanResponse(cur[r], now, ProxiedLocal)
       IN  /\ IssuePut(r, cleanResp)
           /\ Return(r, cleanResp, "doneLocal")
    /\ UNCHANGED <<clsVars, now, store, method, rurl, url, lastPut, swVars>>

LocalBodyRejects(r) ==
    /\ pc[r] = "localBody"
    /\ StartPublic(r)
    /\ UNCHANGED <<clsVars, now, store, method, rurl, url, resp, put, lastPut, swVars>>

\* The public relay fetch resolves with response p (lines 104-106, or
\* 117-121).
PublicResolves(r, p) ==
    /\ pc[r] = "public"
    /\ IF Ok(p)
       THEN /\ cur' = [cur EXCEPT ![r] = p]
            /\ pc' = [pc EXCEPT ![r] = "publicBody"]
            /\ UNCHANGED <<resp, fetched>>
       ELSE ReturnFailure(r)
    /\ UNCHANGED <<clsVars, now, store, method, rurl, url, put, lastPut, swVars>>

PublicRejects(r) ==
    /\ pc[r] = "public"
    /\ ReturnFailure(r)
    /\ UNCHANGED <<clsVars, now, store, method, rurl, url, put, lastPut, swVars>>

\* proxyResp.arrayBuffer() resolves (lines 106-115).
PublicBodyResolves(r) ==
    /\ pc[r] = "publicBody"
    /\ LET cleanResp2 == CleanResponse(cur[r], now, ProxiedTrue)
       IN  /\ IssuePut(r, cleanResp2)
           /\ Return(r, cleanResp2, "donePublic")
    /\ UNCHANGED <<clsVars, now, store, method, rurl, url, lastPut, swVars>>

PublicBodyRejects(r) ==
    /\ pc[r] = "publicBody"
    /\ ReturnFailure(r)
    /\ UNCHANGED <<clsVars, now, store, method, rurl, url, put, lastPut, swVars>>

\* A pending cache.put settles: the entry is stored under its key,
\* replacing what was there.
PutResolves(r) ==
    /\ put[r].state = "pending"
    /\ store' = [store EXCEPT ![CACHE_NAME] = Store(@, put[r].key, put[r].entry)]
    /\ lastPut' = [lastPut EXCEPT ![put[r].key] = r]
    /\ put' = [put EXCEPT ![r].state = "stored"]
    /\ UNCHANGED <<clsVars, now, reqVars, swVars>>

\* Mutant of the swallowed write failure: the failure reaches the request.
PutRejects_escapes(r) ==
    /\ put[r].state = "pending"
    /\ put' = [put EXCEPT ![r].state = "failed"]
    /\ pc' = [pc EXCEPT ![r] = "rejected"]
    /\ resp' = [resp EXCEPT ![r] = NoResp]
    /\ UNCHANGED <<clsVars, now, store, lastPut, method, rurl, url, cur, fetched, swVars>>

\* A pending cache.put rejects (quota, storage error); the rejection is
\* swallowed by the .catch of lines 73, 94 and 114.
PutRejects(r) ==
    /\ put[r].state = "pending"
    /\ put' = [put EXCEPT ![r].state = "failed"]
    /\ UNCHANGED <<clsVars, now, store, lastPut, reqVars, swVars>>

\* The clock advances.
Tick ==
    /\ now < (MaxTicks + 1) * TickMs
    /\ now' = now + TickMs
    /\ UNCHANGED <<clsVars, store, reqVars, put, lastPut, swVars>>

----------------------------------------------------------------------------
(* The worker's lifecycle                                                  *)

ExistingCaches == {n \in CacheNames : store[n] # NoCache}

\* The install listener (lines 124-126): skipWaiting, nothing awaited.
Install ==
    /\ swpc = "new"
    /\ swpc' = "installed"
    /\ UNCHANGED <<clsVars, now, store, reqVars, put, lastPut, names, deleting>>

\* The activate listener up to its first await (lines 128-130):
\* caches.keys() is called.  The lifetime extension of waitUntil is bounded
\* by the browser, and it ends as soon as one deletion rejects, so fetch
\* events may be served while the sweep is still under way.
Activate ==
    /\ swpc = "installed"
    /\ swpc' = "keys"
    /\ UNCHANGED <<clsVars, now, store, reqVars, put, lastPut, names, deleting>>

\* Mutant of the sweep: the filter on the name is missing.
KeysResolves_unfiltered ==
    /\ swpc = "keys"
    /\ names' = ExistingCaches
    /\ deleting' = ExistingCaches
    /\ swpc' = IF deleting' = {} THEN "claimed" ELSE "deleting"
    /\ UNCHANGED <<clsVars, now, store, reqVars, put, lastPut>>

\* caches.keys() resolves (lines 130-134): caches.delete is called for every
\* name other than CACHE_NAME.  With nothing to delete Promise.all resolves
\* at once and clients.claim() is called (line 135).
KeysResolves ==
    /\ swpc = "keys"
    /\ names' = ExistingCaches
    /\ deleting' = {n \in ExistingCaches : n # CACHE_NAME}
    /\ swpc' = IF deleting' = {} THEN "claimed" ELSE "deleting"
    /\ UNCHANGED <<clsVars, now, store, reqVars, put, lastPut>>

\* caches.keys() rejects: the chain rejects, clients.claim() is not called.
KeysRejects ==
    /\ swpc = "keys"
    /\ swpc' = "failed"
    /\ UNCHANGED <<clsVars, now, store, reqVars, put, lastPut, names, deleting>>

\* One caches.delete(name) resolves: the generation is gone.  When it was
\* the last one and none has rejected, Promise.all resolves and
\* clients.claim() is called.
DeleteResolves(n) ==
    /\ n \in deleting
    /\ store' = [store EXCEPT ![n] = NoCache]
    /\ deleting' = deleting \ {n}
    /\ swpc' = IF swpc = "deleting" /\ deleting' = {} THEN "claimed" ELSE swpc
    /\ UNCHANGED <<clsVars, now, reqVars, put, lastPut, names>>

\* One caches.delete(name) rejects: Promise.all rejects, the other deletions
\* stay in flight.
DeleteRejects(n) ==
    /\ n \in deleting
    /\ deleting' = deleting \ {n}
    /\ swpc' = "failed"
    /\ UNCHANGED <<clsVars, now, store, reqVars, put, lastPut, names>>

----------------------------------------------------------------------------
(* The URL classifier on its own: shouldSkip and isKnownBlocked applied to *)
(* URLs put together from a scheme, a host and a path                      *)

ProbeSchemes ==
    { <<>>, HttpPrefix, HttpsPrefix,
      <<"d","a","t","a",":">>,
      <<"b","l","o","b",":">>,
      <<"b","l","o","b",":">> \o HttpsPrefix,
      <<"c","h","r","o","m","e","-","e","x","t","e","n","s","i","o","n",":","/","/">> }

ProbeHosts ==
    { <<"u","n","d","r","a","w",".","c","o">>,
      <<"a",".","u","n","d","r","a","w",".","c","o">>,
      <<"n","o","t","u","n","d","r","a","w",".","c","o">>,
      <<"u","n","d","r","a","w",".","c","o",".","x",".","i","o">>,
      <<"x",".","i","o">>,
      <<"a",".","i","o">>,
      <<"c","o","r","s","p","r","o","x","y",".","i","o">>,
      <<"a","p","i",".","i","c","o","n","i","f","y",".","d","e","s","i","g","n">> }

ProbePaths == { <<>>, <<"/","i">> }

Probes == [scheme : ProbeSchemes, host : ProbeHosts, path : ProbePaths]

ProbeUrl(p) == p.scheme \o p.host \o p.path

InitUrls ==
    /\ InitWorker
    /\ store[CACHE_NAME] = NoCache
    /\ probe \in Probes
    /\ verdict = NoVerdict

\* shouldSkip(url) and isKnownBlocked(url) are called on the URL.
Classify ==
    /\ ~verdict.done
    /\ probe # NoProbe
    /\ verdict' = [done |-> TRUE,
                   skip |-> shouldSkip(ProbeUrl(probe)),
                   blocked |-> isKnownBlocked(ProbeUrl(probe))]
    /\ UNCHANGED <<probe, now, store, reqVars, put, lastPut, swVars>>

NextUrls == Classify

SpecUrls == InitUrls /\ [][NextUrls]_vars

----------------------------------------------------------------------------

Next ==
    \/ \E r \in Reqs, u \in RequestUrls, m \in Methods : FetchEvent(r, u, m)
    \/ \E r \in Reqs : OpenResolves(r)
    \/ \E r \in Reqs : OpenRejects(r)
    \/ \E r \in Reqs : MatchResolves(r)
    \/ \E r \in Reqs : MatchRejects(r)
    \/ \E r \in Reqs, d \in DirectResponses : DirectResolves(r, d)
    \/ \E r \in Reqs : DirectRejects(r)
    \/ \E r \in Reqs : DirectBodyResolves(r)
    \/ \E r \in Reqs : DirectBodyRejects(r)
    \/ \E r \in Reqs, p \in RelayResponses : LocalResolves(r, p)
    \/ \E r \in Reqs : LocalRejects(r)
    \/ \E r \in Reqs : LocalBodyResolves(r)
    \/ \E r \in Reqs : LocalBodyRejects(r)
    \/ \E r \in Reqs, p \in RelayResponses : PublicResolves(r, p)
    \/ \E r \in Reqs : PublicRejects(r)
    \/ \E r \in Reqs : PublicBodyResolves(r)
    \/ \E r \in Reqs : PublicBodyRejects(r)
    \/ \E r \in Reqs : PutResolves(r)
    \/ \E r \in Reqs : PutRejects(r)
    \/ Tick
    \/ Install
    \/ Activate
    \/ KeysResolves
    \/ KeysRejects
    \/ \E n \in CacheNames : DeleteResolves(n)
    \/ \E n \in CacheNames : DeleteRejects(n)

Spec == Init /\ [][Next]_vars

----------------------------------------------------------------------------
(* Vocabulary of the properties                                            *)

Vias(r) == [i \in 1..Len(fetched[r]) |-> fetched[r][i].via]

Returned(r) == pc[r] \in {"doneCache", "doneDirect", "doneLocal", "donePublic", "done502"}

Active == store[CACHE_NAME]

\* The instants at which the model's entries were captured.
CaptureTimes == {k * TickMs : k \in 0..(MaxTicks + 1)}

\* The entry carries a capture timestamp and is younger than the freshness
\* window at time t.
FreshAt(e, t) ==
    \E c \in CaptureTimes :
        /\ "x-sw-cached-at" \in DOMAIN e.headers
        /\ e.headers["x-sw-cached-at"] = NumToString(c)
        /\ t - c < CACHE_MAX_AGE

\* The request's URL is on a deny-listed host.
OnBlockedHost(r) == rurl[r] \in {UrlBlocked, UrlBlockedHttps}

----------------------------------------------------------------------------
(* C1: the network attempts of a request are made in the order direct,     *)
(* local relay, public relay; the local relay is fetched only after the    *)
(* direct attempt was skipped or failed, the public relay only after the   *)
(* local relay attempt failed, and nothing is fetched after an attempt     *)
(* whose response was returned.                                            *)
C1_AttemptOrder ==
    \A r \in Reqs :
        /\ Vias(r) \in { <<>>, <<"direct">>, <<"direct", "local">>,
                         <<"direct", "local", "public">>,
                         <<"local">>, <<"local", "public">> }
        /\ \A i \in 1..Len(fetched[r]) :
              /\ i < Len(fetched[r]) => fetched[r][i].outcome = "failed"
              /\ fetched[r][i].outcome = "returned" =>
                    /\ i = Len(fetched[r])
                    /\ pc[r] = CASE fetched[r][i].via = "direct" -> "doneDirect"
                                 [] fetched[r][i].via = "local" -> "doneLocal"
                                 [] OTHER -> "donePublic"
              /\ fetched[r][i].outcome = "pending" =>
                    pc[r] \in {"direct", "directBody", "local", "localBody",
                               "public", "publicBody"}
        /\ pc[r] \in {"doneDirect", "doneLocal", "donePublic"} =>
              /\ fetched[r] # <<>>
              /\ fetched[r][Len(fetched[r])].outcome = "returned"
        /\ (fetched[r] # <<>> /\ fetched[r][1].via = "local") => OnBlockedHost(r)

C1_Witness ==
    \E r \in Reqs :
        /\ pc[r] = "donePublic"
        /\ Vias(r) = <<"direct", "local", "public">>

(* C2: fetchWithCorsProxy never rejects: whatever the cache and the network *)
(* do, it resolves to an ok response or to the 502 failure response.        *)
C2_NoExceptionEscapes ==
    \A r \in Reqs :
        /\ pc[r] # "rejected"
        /\ Returned(r) => (Ok(resp[r]) \/ resp[r] = FailResponse)

(* C3: when the cache check finds a fresh entry under the secure URL, that  *)
(* entry is returned, and the request fetches nothing and writes nothing.   *)
C3_FreshHit ==
    [][\A r \in Reqs :
          /\ ( /\ pc[r] = "match"
               /\ pc'[r] \notin {"match", "rejected"}
               /\ Active # NoCache
               /\ Active[secureUrl(rurl[r])] # NoResp
               /\ FreshAt(Active[secureUrl(rurl[r])], now) )
             => /\ pc'[r] = "doneCache"
                /\ resp'[r] = Active[secureUrl(rurl[r])]
          /\ pc'[r] = "doneCache" => (fetched'[r] = <<>> /\ put'[r] = NoPut)
      ]_vars

C3_Witness ==
    \E r \in Reqs :
        /\ pc[r] = "doneCache"
        /\ resp[r] = OldEntry
        /\ now > 0

(* C4: an entry without capture timestamp, or as old as the freshness       *)
(* window or older, is never returned by the cache check: the request goes  *)
(* on to its first attempt, and when every attempt fails it gets the 502    *)
(* response.                                                                *)
C4_StaleBypassed ==
    [][\A r \in Reqs :
          /\ ( /\ pc[r] = "match"
               /\ pc'[r] \notin {"match", "rejected"}
               /\ ~FreshAt(Match(Active, secureUrl(rurl[r])), now) )
             => /\ pc'[r] \in {"direct", "local"}
                /\ Len(fetched'[r]) = 1
                /\ resp'[r] = NoResp
          /\ (pc[r] = "match" /\ pc'[r] = "doneCache") => FreshAt(resp'[r], now)
          /\ pc'[r] = "done502" => resp'[r] = FailResponse
      ]_vars

C4_Witness ==
    \E r \in Reqs :
        /\ pc[r] = "done502"
        /\ Match(Active, url[r]) # NoResp
        /\ lastPut[url[r]] = 0

(* C5: a request for a URL on a deny-listed host never makes the direct     *)
(* fetch; its first network attempt is the local relay.                     *)
C5_BlockedSkipsDirect ==
    \A r \in Reqs :
        OnBlockedHost(r) =>
            /\ \A i \in 1..Len(fetched[r]) : fetched[r][i].via # "direct"
            /\ fetched[r] # <<>> =>
                  /\ fetched[r][1].via = "local"
                  /\ fetched[r][1].target = getLocalProxyUrl(secureUrl(rurl[r]))
            /\ pc[r] \notin {"direct", "directBody", "doneDirect"}

C5_Witness ==
    \E r \in Reqs :
        /\ rurl[r] = UrlBlocked
        /\ pc[r] = "doneLocal"

(* C6: once the direct fetch has resolved with an ok status, the request    *)
(* returns that response unchanged and fetches from no relay.               *)
C6_DirectOkIsReturned ==
    [][\A r \in Reqs :
          (pc[r] = "directBody" /\ pc'[r] # "directBody")
             => /\ pc'[r] = "doneDirect"
                /\ resp'[r] = cur[r]
                /\ fetched'[r] = Settle(r, "returned")
      ]_vars

(* C7: when every attempt made for a request fails, the request gets the    *)
(* response with status 502 and status text 'CORS Proxy Failed', and it     *)
(* writes nothing to the cache.                                             *)
C7_AllFailed ==
    \A r \in Reqs :
        /\ pc[r] = "done502" =>
              /\ resp[r].status = 502
              /\ resp[r].statusText = "CORS Proxy Failed"
              /\ put[r] = NoPut
              /\ \A k \in Keys : lastPut[k] # r
              /\ fetched[r] # <<>>
              /\ \A i \in 1..Len(fetched[r]) : fetched[r][i].outcome = "failed"
        /\ ( /\ Returned(r)
             /\ fetched[r] # <<>>
             /\ \A i \in 1..Len(fetched[r]) : fetched[r][i].outcome = "failed" )
           => pc[r] = "done502"

C7_Witness ==
    \E r \in Reqs :
        /\ pc[r] = "done502"
        /\ Len(fetched[r]) = 3
        /\ \E q \in Reqs : put[q].state = "stored"

(* C8, as claimed: once the public relay has answered ok with body B, the   *)
(* cache holds an entry with body B under the secure URL.  Read at the most *)
(* favourable moment: the request's write has settled and no other request  *)
(* has written the key.                                                     *)
C8_CacheHoldsEntry ==
    \A r \in Reqs :
        ( /\ pc[r] = "donePublic"
          /\ put[r].state # "pending"
          /\ \A q \in Reqs \ {r} : put[q].key # url[r] )
        => /\ Match(Active, url[r]) # NoResp
           /\ Match(Active, url[r]).body = resp[r].body

(* C8, amended: when the local relay attempt failed and the public relay    *)
(* answers ok with body B, the request returns status 200, body B, the      *)
(* relay's content type and the marker 'true', and issues a write of that   *)
(* entry under the secure URL; the cache holds the entry when that write    *)
(* succeeds, and is left as it was when the write fails.                    *)
C8_PublicRelaySuccess ==
    [][\A r \in Reqs :
          /\ (pc[r] = "publicBody" /\ pc'[r] = "donePublic")
             => /\ \E i \in 1..Len(fetched[r]) :
                      fetched[r][i].via = "local" /\ fetched[r][i].outcome = "failed"
                /\ resp'[r].status = 200
                /\ resp'[r].body = cur[r].body
                /\ "content-type" \in DOMAIN cur[r].headers
                      => resp'[r].headers["content-type"] = cur[r].headers["content-type"]
                /\ resp'[r].headers["x-sw-proxied"] = ProxiedTrue
                /\ put'[r] = [key |-> secureUrl(rurl[r]), entry |-> resp'[r],
                              state |-> "pending"]
          /\ (pc[r] = "donePublic" /\ put[r].state = "pending" /\ put'[r].state = "stored")
             => Match(store'[CACHE_NAME], secureUrl(rurl[r])) = resp[r]
          /\ (pc[r] = "donePublic" /\ put[r].state = "pending" /\ put'[r].state = "failed")
             => store' = store
      ]_vars

C8_Witness ==
    \E r \in Reqs :
        /\ pc[r] = "donePublic"
        /\ rurl[r] = UrlBlocked
        /\ resp[r].body = "B1"
        /\ resp[r].headers["content-type"] = ImagePng
        /\ put[r].state = "stored"
        /\ Match(Active, secureUrl(UrlBlocked)) = resp[r]

(* C9: the activation sweep asks for the deletion of every generation whose *)
(* name is not the active name and of nothing else; no step of the sweep    *)
(* changes the active generation, whose entries change only by a request's  *)
(* write of the same key, however sweep and requests interleave.            *)
C9_SweepFrame ==
    [][/\ \A n \in CacheNames :
             (store[n] # NoCache /\ store'[n] = NoCache)
                => (n # CACHE_NAME /\ n \in deleting)
       /\ swVars' # swVars => store'[CACHE_NAME] = store[CACHE_NAME]
       /\ (swpc = "keys" /\ swpc' \in {"deleting", "claimed"})
             => deleting' = {n \in CacheNames : store[n] # NoCache} \ {CACHE_NAME}
       /\ swpc' = "claimed" => \A n \in CacheNames \ {CACHE_NAME} : store'[n] = NoCache
       /\ \A k \in Keys :
             (Active # NoCache /\ Active[k] # NoResp)
                => \/ Match(store'[CACHE_NAME], k) = Active[k]
                   \/ \E r \in Reqs : /\ put[r] = [key |-> k, entry |-> put[r].entry,
                                                   state |-> "pending"]
                                      /\ put'[r].state = "stored"
                                      /\ Match(store'[CACHE_NAME], k) = put[r].entry
      ]_vars

C9_Witness ==
    /\ swpc = "claimed"
    /\ store[OLD_CACHE] = NoCache
    /\ Match(Active, secureUrl(UrlBlocked)) = BareEntry
    /\ \E r \in Reqs : put[r].state = "stored" /\ Match(Active, put[r].key) = put[r].entry

(* C10: a request that returns the response of an attempt returns it while  *)
(* its cache write is still pending, and the settling of the write, either  *)
(* way, changes neither the response nor the fact that it was returned.     *)
C10_FireAndForget ==
    [][\A r \in Reqs :
          /\ (~Returned(r) /\ pc'[r] \in {"doneDirect", "doneLocal", "donePublic"})
             => (put'[r].state = "pending" /\ Ok(resp'[r]))
          /\ (put[r].state = "pending" /\ put'[r].state # "pending")
             => (Returned(r) /\ put'[r].state \in {"stored", "failed"})
          /\ Returned(r) => (pc'[r] = pc[r] /\ resp'[r] = resp[r])
      ]_vars

C10_Witness ==
    \E r \in Reqs :
        /\ pc[r] = "doneDirect"
        /\ put[r].state = "failed"
        /\ Ok(resp[r])

(* C11: only a GET request whose URL shouldSkip does not skip reaches the   *)
(* orchestrator; every other request is passed through: nothing is fetched  *)
(* for it, the cache is neither opened nor read nor written, and it gets no *)
(* response from the orchestrator.                                          *)
C11_OnlyEligibleGet ==
    \A r \in Reqs :
        /\ pc[r] \notin {"idle", "passthrough"}
              => (method[r] = "GET" /\ rurl[r] \in {UrlBlocked, UrlBlockedHttps, UrlOpen})
        /\ pc[r] = "passthrough"
              => /\ method[r] # "GET" \/ rurl[r] \in {UrlSelf, UrlData}
                 /\ fetched[r] = <<>>
                 /\ put[r] = NoPut
                 /\ url[r] = <<>>
                 /\ resp[r] = NoResp
                 /\ \A k \in Keys : lastPut[k] # r
        /\ (\A q \in Reqs : pc[q] \in {"idle", "passthrough"})
              => (\E c \in InitialCaches : Active = c)

C11_Witness ==
    /\ pc[1] = "passthrough" /\ method[1] = "POST" /\ rurl[1] = UrlOpen
    /\ pc[2] = "passthrough" /\ method[2] = "GET" /\ rurl[2] = UrlSelf

(* C12: the cache holds at most one entry per secure URL: the http and the  *)
(* https form of a URL have the same key, secureUrl is idempotent, every    *)
(* lookup and write of a request uses that key, and a write replaces the    *)
(* entry of its key and adds none.                                          *)
C12_OneEntryPerKey ==
    /\ secureUrl(UrlBlocked) = UrlBlockedHttps
    /\ \A u \in RequestUrls \cup {getLocalProxyUrl(UrlOpen), HttpPrefix \o UrlBlocked} :
          /\ secureUrl(secureUrl(u)) = secureUrl(u)
          /\ ~StartsWith(secureUrl(u), HttpPrefix)
    /\ \A r \in Reqs :
          /\ pc[r] \notin {"idle", "passthrough"} =>
                url[r] = (IF rurl[r] = UrlBlocked THEN UrlBlockedHttps ELSE rurl[r])
          /\ put[r] # NoPut => put[r].key = url[r]
          /\ \A i \in 1..Len(fetched[r]) :
                fetched[r][i].via = "direct" => fetched[r][i].target = url[r]
    /\ Active # NoCache =>
          /\ \A k \in DOMAIN Active : Active[k] # NoResp => ~StartsWith(k, HttpPrefix)
          /\ Cardinality({k \in DOMAIN Active : Active[k] # NoResp})
                <= Cardinality({UrlBlockedHttps, UrlOpen})

C12_Witness ==
    /\ rurl[1] = UrlBlocked /\ put[1].state = "stored"
    /\ rurl[2] = UrlBlockedHttps /\ put[2].state = "stored"
    /\ lastPut[UrlBlockedHttps] = 2
    /\ {k \in DOMAIN Active : Active[k] # NoResp} = {UrlBlockedHttps}
    /\ Active[UrlBlockedHttps] = put[2].entry
    /\ put[1].entry # put[2].entry

(* C13: isKnownBlocked answers true exactly for a URL that parses and whose *)
(* hostname is a deny-listed host or ends with '.' and a deny-listed host;  *)
(* it answers false for 'notundraw.co', for every other host and for a      *)
(* string that is no URL.                                                   *)
C13_KnownBlockedExact ==
    verdict.done =>
        ( verdict.blocked <=>
            /\ probe.scheme \in {HttpPrefix, HttpsPrefix,
                  <<"c","h","r","o","m","e","-","e","x","t","e","n","s","i","o","n",":","/","/">>}
            /\ probe.host \in { <<"u","n","d","r","a","w",".","c","o">>,
                                <<"a",".","u","n","d","r","a","w",".","c","o">> } )

C13_Witness ==
    /\ verdict.done
    /\ verdict.blocked
    /\ probe.scheme = HttpsPrefix
    /\ probe.host = <<"a",".","u","n","d","r","a","w",".","c","o">>

(* C14: shouldSkip answers true exactly for a string that is no URL, a URL  *)
(* of the application's own origin, a data:, blob: or chrome-extension: URL *)
(* and a URL whose host is corsproxy.io or api.iconify.design.              *)
C14_ShouldSkipExact ==
    verdict.done =>
        ( verdict.skip <=>
            \/ probe.scheme \notin {HttpPrefix, HttpsPrefix}
            \/ probe.host \in { <<"c","o","r","s","p","r","o","x","y",".","i","o">>,
                                <<"a","p","i",".","i","c","o","n","i","f","y",".","d","e","s","i","g","n">> }
            \/ (probe.scheme = HttpsPrefix /\ probe.host = <<"a",".","i","o">>) )

C14_Witness ==
    /\ verdict.done
    /\ verdict.skip
    /\ probe.scheme = HttpsPrefix
    /\ probe.host = <<"a","p","i",".","i","c","o","n","i","f","y",".","d","e","s","i","g","n">>

(* C15: a request makes each of the direct, local relay and public relay    *)
(* fetches at most once, and once none of its calls is left to settle it    *)
(* has returned a response.                                                 *)
C15_AtMostOnceAndReturns ==
    \A r \in Reqs :
        /\ Len(fetched[r]) <= 3
        /\ \A i, j \in 1..Len(fetched[r]) :
              fetched[r][i].via = fetched[r][j].via => i = j
        /\ pc[r] \notin {"idle", "passthrough", "open", "match", "direct",
                         "directBody", "local", "localBody", "public", "publicBody"}
              => (Returned(r) /\ resp[r] # NoResp)

(* C16: expiry is lazy.  No step of a request other than the settling of    *)
(* its own write changes the active generation, so a stale entry stays      *)
(* where it is when a lookup bypasses it; an entry changes only by the      *)
(* write of a request that returned an attempt's response for the same key, *)
(* never by a lookup, by a failed attempt or by the sweep.                  *)
C16_LazyExpiry ==
    [][/\ \A r \in Reqs :
             pc'[r] # pc[r] =>
                \/ store' = store
                \/ (pc[r] = "open" /\ Active = NoCache /\ store'[CACHE_NAME] = EmptyCache)
       /\ \A k \in Keys :
             (Active # NoCache /\ Active[k] # NoResp /\ Match(store'[CACHE_NAME], k) # Active[k])
                => \E r \in Reqs :
                      /\ pc[r] \in {"doneDirect", "doneLocal", "donePublic"}
                      /\ fetched[r][Len(fetched[r])].outcome = "returned"
                      /\ url[r] = k
                      /\ put[r].state = "pending"
                      /\ put'[r].state = "stored"
                      /\ store'[CACHE_NAME][k] = put[r].entry
                      /\ pc' = pc
                      /\ swVars' = swVars
      ]_vars

C16_Witness ==
    \E r \in Reqs :
        /\ pc[r] = "done502"
        /\ rurl[r] = UrlOpen
        /\ Active # NoCache
        /\ Active[UrlOpen] = OldEntry
        /\ now - 0 >= CACHE_MAX_AGE
        /\ swpc = "claimed"

(* C17 as stated: when the direct response being cached already carries a   *)
(* capture timestamp, the entry written for it keeps that timestamp.        *)
C17_KeepsExistingStamp ==
    \A r \in Reqs :
        (pc[r] = "doneDirect" /\ HeaderGet(resp[r].headers, "x-sw-cached-at") # Null)
            => HeaderGet(put[r].entry.headers, "x-sw-cached-at")
                  = HeaderGet(resp[r].headers, "x-sw-cached-at")

(* C17, amended: the entry written for an ok direct response is always      *)
(* stamped with the clock at the time of the write, replacing a capture     *)
(* timestamp the response carried; its body, status and other headers are   *)
(* the response's, and the response returned keeps its own headers.         *)
C17_AlwaysRestamped ==
    [][\A r \in Reqs :
          (pc[r] = "directBody" /\ pc'[r] = "doneDirect") =>
             /\ resp'[r] = cur[r]
             /\ put'[r].state = "pending"
             /\ HeaderGet(put'[r].entry.headers, "x-sw-cached-at") = NumToString(now)
             /\ \A n \in (DOMAIN cur[r].headers) \ {"x-sw-cached-at"} :
                   HeaderGet(put'[r].entry.headers, n) = cur[r].headers[n]
             /\ put'[r].entry.body = cur[r].body
             /\ put'[r].entry.status = cur[r].status
      ]_vars

C17_Witness ==
    \E r \in Reqs :
        /\ pc[r] = "doneDirect"
        /\ HeaderGet(resp[r].headers, "x-sw-cached-at") = NumToString(0)
        /\ put[r].state = "stored"
        /\ HeaderGet(put[r].entry.headers, "x-sw-cached-at") = NumToString(2 * TickMs)
        /\ HeaderGet(Match(Active, url[r]).headers, "x-sw-cached-at") = NumToString(2 * TickMs)

(* C18: clients are claimed only once every generation other than the       *)
(* active one has been deleted, and every activation ends with the clients  *)
(* claimed: when no call of the activation is left to settle, whether its   *)
(* deletions succeeded or failed, clients.claim() has been called.          *)
C18_ClaimAfterSweep ==
    /\ swpc = "claimed" =>
          /\ deleting = {}
          /\ \A n \in CacheNames \ {CACHE_NAME} : store[n] = NoCache
    /\ (swpc \notin {"new", "installed", "keys", "deleting"} /\ names # {} /\ deleting = {})
          => swpc = "claimed"

(* C19: every write the worker issues carries an entry with an ok status    *)
(* and x-sw-cached-at equal to the clock at the time it was built, never    *)
(* the 502 response or a non-ok response; and whatever a settled write      *)
(* leaves in the active cache is such an entry.                             *)
C19_WrittenEntries ==
    [][/\ \A r \in Reqs :
             put'[r] # put[r] =>
                IF put[r].state = "none"
                THEN /\ put'[r].state = "pending"
                     /\ Ok(put'[r].entry)
                     /\ put'[r].entry.status # FailResponse.status
                     /\ put'[r].entry.body # FailResponse.body
                     /\ HeaderGet(put'[r].entry.headers, "x-sw-cached-at") = NumToString(now)
                     /\ put'[r].key = secureUrl(rurl[r])
                     /\ resp'[r].body = put'[r].entry.body
                ELSE /\ put'[r].entry = put[r].entry
                     /\ put'[r].key = put[r].key
       /\ \A k \in Keys :
             lastPut'[k] # lastPut[k] =>
                LET e == Match(store'[CACHE_NAME], k)
                IN  /\ e = put[lastPut'[k]].entry
                    /\ Ok(e)
                    /\ \E t \in CaptureTimes :
                          /\ t <= now
                          /\ HeaderGet(e.headers, "x-sw-cached-at") = NumToString(t)
      ]_vars

C19_Witness ==
    /\ \E r \in Reqs :
          /\ pc[r] = "doneLocal"
          /\ put[r].state = "stored"
          /\ lastPut[put[r].key] = r
          /\ Ok(Match(Active, put[r].key))
          /\ HeaderGet(Match(Active, put[r].key).headers, "x-sw-cached-at") = NumToString(TickMs)
    /\ \E r \in Reqs :
          /\ pc[r] = "done502"
          /\ put[r].state = "none"
          /\ Match(Active, url[r]) # FailResponse

(* C20: the capture timestamp stored under a key never decreases: the entry *)
(* under a key was captured no earlier than any entry a settled write has   *)
(* put under that key, whatever the order in which the writes settled.      *)
C20_StampNeverDecreases ==
    \A r \in Reqs :
        put[r].state = "stored" =>
            ParseInt(HeaderGet(Match(Active, put[r].key).headers, "x-sw-cached-at")).val
               >= ParseInt(HeaderGet(put[r].entry.headers, "x-sw-cached-at")).val

====
